---------------------------- MODULE Spec2Model ----------------------------
(***************************************************************************)
(* The chat network layer of src/network.py: one Server (accept loop, one  *)
(* handler thread per accepted connection, the registry, broadcast, ban    *)
(* and kill) and one Client per connection (the two handshake steps and    *)
(* the listener thread).  Threads interleave at the granularity of the     *)
(* statements that read or write shared state.                             *)
(*                                                                         *)
(* A connection is named by a number c; its address is (Host(c), c), so    *)
(* the model uses c itself as the address key and Host(c) for address[0].  *)
(* Socket read timeouts (settimeout(1000)) are not modelled: every read    *)
(* ends by a frame, by the socket being closed or by the peer's EOF.       *)
(*                                                                         *)
(* Above the Client, the NetBot of src/netbot.py with the command flow of  *)
(* src/bot.py: one slot for a client, and the continuation that takes the  *)
(* user's next message while a handshake is under way.                     *)
(***************************************************************************)
EXTENDS Integers, Sequences, FiniteSets, TLC

\* ------------------------------------------------------------- bounds
NConn == 3
MaxSends == 1
MaxStops == 1
MaxBans == 1
MaxKills == 2

Conns == 1..NConn
\* Usernames.  Behaviour does not depend on which name is which, so an input
\* is drawn from the names already introduced plus one new name.
MaxNames == 3
NameSeq == <<"a", "b", "c", "d", "e">>
Names == {NameSeq[i] : i \in 1..MaxNames}
Host(c) == (c + 1) \div 2

\* ------------------------------------------------------------- frames
\* Client -> server events (the dictionaries Client.send pickles).
AuthReq == [event |-> "auth", hasMsg |-> FALSE]
AuthName(n) == [event |-> "auth", hasMsg |-> TRUE, content |-> n]
BroadcastReq(m) ==
    [event |-> "broadcast", ini |-> m.ini, from |-> m.from, text |-> m.text]
OtherReq == [event |-> "ping"]
\* What a short read leaves in the stream: the rest of a payload.
Remainder == [event |-> "remainder"]
\* The (initiator, _from) stamps a sender may put on a message it broadcasts.
ClientMessages == {[ini |-> "User", from |-> "a"], [ini |-> "System", from |-> "b"]}
\* The message with its text: the k-th message typed reads k.
Typed(m, k) == [ini |-> m.ini, from |-> m.from, text |-> k]

\* Server -> client events.
NoFrame == [event |-> "none"]
Prompt(t) == [event |-> "auth", text |-> t]
AuthReject == [event |-> "auth_reject"]
AuthSuccess(u, n) == [event |-> "auth_success", username |-> u, online |-> n]
\* kind, who, online stand for the message text; via is the handler that
\* called Server.broadcast (not on the wire, kept to state the claims).
BroadcastFrame(m, via) ==
    [event |-> "broadcast", ini |-> m.ini, from |-> m.from, kind |-> m.kind,
     who |-> m.who, online |-> m.online, text |-> m.text, via |-> via]
NoMessage == [ini |-> "", from |-> "", kind |-> "", who |-> "", online |-> 0, text |-> 0]
SystemNotice(kind, who, n) ==
    [ini |-> "System", from |-> "System", kind |-> kind, who |-> who, online |-> n,
     text |-> 0]

\* ------------------------------------------------------------- dict helpers
\* connected_clients is a Python dict: insertion-ordered name -> address.
Keys(d) == {d[i].name : i \in DOMAIN d}
Values(d) == {d[i].addr : i \in DOMAIN d}
DictGet(d, k) == d[CHOOSE i \in DOMAIN d : d[i].name = k].addr
\* A store that drops the entries of the other keys.
DictSetLosing(d, k, v) == <<[name |-> k, addr |-> v]>>
DictSet(d, k, v) ==
    IF k \in Keys(d)
    THEN [i \in DOMAIN d |-> IF d[i].name = k THEN [name |-> k, addr |-> v] ELSE d[i]]
    ELSE Append(d, [name |-> k, addr |-> v])
DictPop(d, k) == SelectSeq(d, LAMBDA e : e.name # k)
MapPop(f, k) == [x \in DOMAIN f \ {k} |-> f[x]]
Range(s) == {s[i] : i \in DOMAIN s}

VARIABLES
    \* Server fields (network.py 73-99)
    connected_clients, reverse_connected_clients, blacklisted_users,
    blacklisted_addrs, connected_sockets, stop_server,
    lsock,      \* Server.socket: "bound", "listening", "closed"
    runner,     \* server_runner thread: "unstarted", "running", "exited"
    ssock,      \* per connection, the server's end: "none", "queued", "open", "closed"
    \* client_socket_handler threads
    hpc, content, reply, bmsg, bi, bn, bstart, bsent,
    \* the thread calling ban_user / kill_server; kicked records the pairs
    \* <<connection, username>> whose socket ban_user closed
    adm, kicked,
    \* the wire
    toServer, toClient,
    \* Client fields (network.py 224-238) and threads
    phase, csock, lst, authenticated, known_as, stop_client, ndisc,
    apperr,     \* per client, the calls of its API that raised to the application
    heard,      \* per client, the relayed messages passed to on_broadcast_handler
    \* inputs spent, names introduced
    nsent, nban, nkill, nnames,
    \* one Messenger.recv on a byte stream (network.py 35-64)
    sent_event, framing, stream, peer_closed, rpc, data_length, received,
    \* NetBot and Bot fields (netbot.py 22-23, bot.py 299)
    network_client, \* NetBot.network_client: 0 (None) or the client it holds
    flow,           \* Bot.__internal_current_command_flow: 0 (None) or the
                    \* client whose response_handler it is
    said            \* the last notice NetBot or the handshake showed the user

serverVars == <<connected_clients, reverse_connected_clients, blacklisted_users,
                blacklisted_addrs, connected_sockets, stop_server, lsock, runner, ssock>>
handlerVars == <<hpc, content, reply, bmsg, bi, bn, bstart, bsent>>
clientVars == <<phase, csock, lst, authenticated, known_as, stop_client, ndisc, apperr, heard>>
messengerVars == <<sent_event, framing, stream, peer_closed, rpc, data_length, received>>
chatVars == <<serverVars, handlerVars, adm, kicked, toServer, toClient, clientVars,
              nsent, nban, nkill, nnames>>
botVars == <<network_client, flow, said>>
vars == <<chatVars, messengerVars, botVars>>

KnownNames == {NameSeq[i] : i \in 1..nnames}
NameChoices == {NameSeq[i] : i \in 1..(IF nnames < MaxNames THEN nnames + 1 ELSE MaxNames)}
AuthNames == NameChoices \cup {""}
Introduce(n) == nnames' = IF n \in KnownNames \/ n = "" THEN nnames ELSE nnames + 1

ZeroSent == [d \in Conns |-> 0]
AdmIdle == [pc |-> "idle", arg |-> ""]

\* The state after Server() and every Client() were constructed.
InitChat ==
    /\ connected_clients = <<>>
    /\ reverse_connected_clients = <<>>
    /\ blacklisted_users = <<>>
    /\ blacklisted_addrs = <<>>
    /\ connected_sockets = {}
    /\ stop_server = FALSE
    /\ lsock = "bound"
    /\ runner = "unstarted"
    /\ ssock = [c \in Conns |-> "none"]
    /\ hpc = [c \in Conns |-> "none"]
    /\ content = [c \in Conns |-> NoFrame]
    /\ reply = [c \in Conns |-> NoFrame]
    /\ bmsg = [c \in Conns |-> NoMessage]
    /\ bi = [c \in Conns |-> 0]
    /\ bn = [c \in Conns |-> 0]
    /\ bstart = [c \in Conns |-> {}]
    /\ bsent = [c \in Conns |-> ZeroSent]
    /\ adm = AdmIdle
    /\ kicked = {}
    /\ toServer = [c \in Conns |-> <<>>]
    /\ toClient = [c \in Conns |-> <<>>]
    /\ phase = [c \in Conns |-> "idle"]
    /\ csock = [c \in Conns |-> "new"]
    /\ lst = [c \in Conns |-> "unstarted"]
    /\ authenticated = [c \in Conns |-> FALSE]
    /\ known_as = [c \in Conns |-> ""]
    /\ stop_client = [c \in Conns |-> FALSE]
    /\ ndisc = [c \in Conns |-> 0]
    /\ apperr = [c \in Conns |-> {}]
    /\ heard = [c \in Conns |-> <<>>]
    /\ nsent = 0
    /\ nban = 0
    /\ nkill = 0
    /\ nnames = 0
    /\ network_client = 0
    /\ flow = 0
    /\ said = "none"

\* No byte stream is being read.
Init ==
    /\ InitChat
    /\ sent_event = <<>>
    /\ framing = "none"
    /\ stream = <<>>
    /\ peer_closed = FALSE
    /\ rpc = "idle"
    /\ data_length = 0
    /\ received = [kind |-> "none"]


\* ------------------------------------------------------------- sockets
\* socket.send on the server's socket of connection dst: an OSError when that
\* socket object was closed, otherwise the frame is queued for the peer (and
\* lost when the peer has already closed its end).
SendRaises(dst) == ssock[dst] # "open"
\* A transport that hands the newest frame to the reader first.
DeliveredNewestFirst(q, dst, f) ==
    IF csock[dst] = "closed" THEN q ELSE [q EXCEPT ![dst] = <<f>> \o @]
Delivered(q, dst, f) ==
    IF csock[dst] = "closed" THEN q ELSE [q EXCEPT ![dst] = Append(@, f)]

\* ------------------------------------------------------------- Server.on_sock_recv
\* Line 114.
IsDuplicate(n) == n \in Keys(connected_clients)
\* A ban check that forgets the address list.
IsBannedByNameOnly(c, n) == n \in Range(blacklisted_users)
\* Line 116.
IsBanned(c, n) ==
    n \in Range(blacklisted_users) \/ Host(c) \in Range(blacklisted_addrs)
\* Line 131.
IsRegistered(c) == c \in DOMAIN reverse_connected_clients
\* A relay that trusts the stamps the client put on its message.
StampAsSent(c, m) ==
    [ini |-> m.ini, from |-> m.from, kind |-> "relay", who |-> "", online |-> 0,
     text |-> m.text]
\* Lines 135-136.
Stamp(c, m) ==
    [ini |-> "Network", from |-> reverse_connected_clients[c],
     kind |-> "relay", who |-> "", online |-> 0, text |-> m.text]
\* A broadcast that skips nobody.
SkipNobody(c) == {}
\* skip_addrs of lines 126, 137 and 173.
SkipAddrs(c) == {c}

\* on_sock_recv without the prompt of line 132: an unregistered connection
\* that sends another event than auth is answered like a registered one that
\* sends an event the server does not know.
OnSockRecvNoPrompt(c, d) ==
    IF d.event = "auth" /\ ~d.hasMsg
        THEN [next |-> "send", reply |-> Prompt("name")]
    ELSE IF d.event = "auth" /\ IsDuplicate(d.content)
        THEN [next |-> "send", reply |-> Prompt("used")]
    ELSE IF d.event = "auth" /\ IsBanned(c, d.content)
        THEN [next |-> "send", reply |-> AuthReject]
    ELSE IF d.event = "auth" /\ d.content # ""
        THEN [next |-> "reg", reply |-> NoFrame]
    ELSE IF IsRegistered(c) /\ d.event = "broadcast"
        THEN [next |-> "relay", reply |-> NoFrame]
    ELSE [next |-> "send", reply |-> NoFrame]

\* on_sock_recv with the checks of lines 114 and 116 in the other order.
OnSockRecvBanFirst(c, d) ==
    IF d.event = "auth" /\ ~d.hasMsg
        THEN [next |-> "send", reply |-> Prompt("name")]
    ELSE IF d.event = "auth" /\ IsBanned(c, d.content)
        THEN [next |-> "send", reply |-> AuthReject]
    ELSE IF d.event = "auth" /\ IsDuplicate(d.content)
        THEN [next |-> "send", reply |-> Prompt("used")]
    ELSE IF d.event = "auth" /\ d.content # ""
        THEN [next |-> "reg", reply |-> NoFrame]
    ELSE IF ~IsRegistered(c)
        THEN [next |-> "send", reply |-> Prompt("who")]
    ELSE IF d.event = "broadcast"
        THEN [next |-> "relay", reply |-> NoFrame]
    ELSE [next |-> "send", reply |-> NoFrame]

\* on_sock_recv whose line 118 does not test that the name is non-empty.
OnSockRecvTakesEmptyName(c, d) ==
    IF d.event = "auth" /\ ~d.hasMsg
        THEN [next |-> "send", reply |-> Prompt("name")]
    ELSE IF d.event = "auth" /\ IsDuplicate(d.content)
        THEN [next |-> "send", reply |-> Prompt("used")]
    ELSE IF d.event = "auth" /\ IsBanned(c, d.content)
        THEN [next |-> "send", reply |-> AuthReject]
    ELSE IF d.event = "auth"
        THEN [next |-> "reg", reply |-> NoFrame]
    ELSE IF ~IsRegistered(c)
        THEN [next |-> "send", reply |-> Prompt("who")]
    ELSE IF d.event = "broadcast"
        THEN [next |-> "relay", reply |-> NoFrame]
    ELSE [next |-> "send", reply |-> NoFrame]

\* Lines 108-137 up to the first write of shared state: the reply returned at
\* once, or the branch taken ("reg": lines 119-129, "relay": lines 135-137).
OnSockRecv(c, d) ==
    IF d.event = "auth" /\ ~d.hasMsg
        THEN [next |-> "send", reply |-> Prompt("name")]
    ELSE IF d.event = "auth" /\ IsDuplicate(d.content)
        THEN [next |-> "send", reply |-> Prompt("used")]
    ELSE IF d.event = "auth" /\ IsBanned(c, d.content)
        THEN [next |-> "send", reply |-> AuthReject]
    ELSE IF d.event = "auth" /\ d.content # ""
        THEN [next |-> "reg", reply |-> NoFrame]
    ELSE IF ~IsRegistered(c)
        THEN [next |-> "send", reply |-> Prompt("who")]
    ELSE IF d.event = "broadcast"
        THEN [next |-> "relay", reply |-> NoFrame]
    ELSE [next |-> "send", reply |-> NoFrame]

\* Server.broadcast, entry: the dict iterator is created over the registry as
\* it is now (dict, rev); bstart and bsent record who was registered then and
\* how many frames each destination was sent by this call.
BeginBroadcast(c, m, dict, rev, label) ==
    /\ bmsg' = [bmsg EXCEPT ![c] = m]
    /\ bi' = [bi EXCEPT ![c] = 1]
    /\ bn' = [bn EXCEPT ![c] = Len(dict)]
    /\ bstart' = [bstart EXCEPT ![c] = DOMAIN rev \ {c}]
    /\ bsent' = [bsent EXCEPT ![c] = ZeroSent]
    /\ hpc' = [hpc EXCEPT ![c] = label]

EndBroadcast(c) ==
    /\ bmsg' = [bmsg EXCEPT ![c] = NoMessage]
    /\ bi' = [bi EXCEPT ![c] = 0]
    /\ bn' = [bn EXCEPT ![c] = 0]
    /\ bstart' = [bstart EXCEPT ![c] = {}]
    /\ bsent' = [bsent EXCEPT ![c] = ZeroSent]

\* ------------------------------------------------------------- Server.client_socket_handler
\* Line 157, then the first test of the while condition.
HandlerEnter(c) ==
    /\ hpc[c] = "init"
    /\ connected_sockets' = connected_sockets \cup {c}
    /\ hpc' = [hpc EXCEPT ![c] = IF stop_server THEN "cl1" ELSE "recv"]
    /\ UNCHANGED <<connected_clients, reverse_connected_clients, blacklisted_users,
                   blacklisted_addrs, stop_server, lsock, runner, ssock,
                   content, reply, bmsg, bi, bn, bstart, bsent,
                   adm, kicked, toServer, toClient, clientVars, nsent, nban, nkill, nnames,
                   messengerVars, botVars>>

\* Lines 160-161: Messenger.recv raises DisconnectedError on a closed socket,
\* on the peer's EOF, or on bytes that are no header (break, line 164); else
\* the frame read is handled by on_sock_recv up to its first write of shared
\* state.
HandlerRecv(c) ==
    /\ hpc[c] = "recv"
    /\ IF ssock[c] = "closed" \/ (toServer[c] = <<>> /\ csock[c] = "closed")
       THEN /\ hpc' = [hpc EXCEPT ![c] = "cl1"]
            /\ UNCHANGED <<content, reply, toServer, bmsg, bi, bn, bstart, bsent>>
       ELSE IF toServer[c] # <<>> /\ Head(toServer[c]) = Remainder
       THEN /\ hpc' = [hpc EXCEPT ![c] = "cl1"]
            /\ toServer' = [toServer EXCEPT ![c] = Tail(@)]
            /\ UNCHANGED <<content, reply, bmsg, bi, bn, bstart, bsent>>
       ELSE /\ toServer[c] # <<>>
            /\ toServer' = [toServer EXCEPT ![c] = Tail(@)]
            /\ content' = [content EXCEPT ![c] = Head(toServer[c])]
            /\ LET r == OnSockRecv(c, Head(toServer[c])) IN
               IF r.next = "relay"
               THEN /\ BeginBroadcast(c, Stamp(c, Head(toServer[c])), connected_clients,
                                      reverse_connected_clients, "brelay")
                    /\ UNCHANGED reply
               ELSE /\ hpc' = [hpc EXCEPT ![c] = r.next]
                    /\ reply' = [reply EXCEPT ![c] = r.reply]
                    /\ UNCHANGED <<bmsg, bi, bn, bstart, bsent>>
    /\ UNCHANGED <<serverVars, adm, kicked, toClient, clientVars, nsent, nban, nkill, nnames,
                   messengerVars, botVars>>

\* Lines 160 and 165-166 when the transport hands socket.recv less than the
\* payload (RecvPayload): pickle.loads raises, the bare except logs it and the
\* loop goes on; the rest of the payload is still in the stream.
HandlerRecvShort(c) ==
    /\ hpc[c] = "recv"
    /\ ssock[c] = "open"
    /\ toServer[c] # <<>>
    /\ Head(toServer[c]) # Remainder
    /\ toServer' = [toServer EXCEPT ![c] = <<Remainder>> \o Tail(@)]
    /\ hpc' = [hpc EXCEPT ![c] = IF stop_server THEN "cl1" ELSE "recv"]
    /\ UNCHANGED <<serverVars, content, reply, bmsg, bi, bn, bstart, bsent,
                   adm, kicked, toClient, clientVars, nsent, nban, nkill, nnames,
                   messengerVars, botVars>>

\* Lines 120-125: register, build the "joined" notice, enter broadcast.
HandlerRegister(c) ==
    /\ hpc[c] = "reg"
    /\ LET n == content[c].content
           dict == DictSet(connected_clients, n, c)
           rev == (c :> n) @@ reverse_connected_clients
       IN /\ connected_clients' = dict
          /\ reverse_connected_clients' = rev
          /\ BeginBroadcast(c, SystemNotice("joined", rev[c], Len(dict)), dict, rev, "bjoin")
    /\ UNCHANGED <<blacklisted_users, blacklisted_addrs, connected_sockets, stop_server,
                   lsock, runner, ssock, content, reply,
                   adm, kicked, toServer, toClient, clientVars, nsent, nban, nkill, nnames,
                   messengerVars, botVars>>

\* What follows the broadcast call: lines 127-129, line 137 (falls off the end
\* of on_sock_recv, which returns None), or line 174.
AfterBroadcast(c) ==
    /\ EndBroadcast(c)
    /\ IF hpc[c] = "bjoin"
       THEN /\ reply' = [reply EXCEPT ![c] =
                  AuthSuccess(reverse_connected_clients[c], Len(connected_clients))]
            /\ hpc' = [hpc EXCEPT ![c] = "send"]
       ELSE IF hpc[c] = "brelay"
       THEN /\ reply' = [reply EXCEPT ![c] = NoFrame]
            /\ hpc' = [hpc EXCEPT ![c] = "send"]
       ELSE /\ hpc' = [hpc EXCEPT ![c] = "cl2"]
            /\ UNCHANGED reply

\* Server.broadcast, one turn of the loop of lines 145-151.  The dict iterator
\* raises RuntimeError when the dict changed size, the socket lookup raises
\* KeyError; both leave the loop through the outer except (152-153).
BroadcastStep(c) ==
    /\ hpc[c] \in {"bjoin", "brelay", "bleft"}
    /\ LET dict == connected_clients
           i == bi[c]
       IN IF Len(dict) # bn[c] \/ i > Len(dict)
          THEN AfterBroadcast(c) /\ UNCHANGED toClient
          ELSE LET dst == dict[i].addr IN
               IF dst \in SkipAddrs(c)
               THEN /\ bi' = [bi EXCEPT ![c] = i + 1]
                    /\ UNCHANGED <<hpc, reply, bmsg, bn, bstart, bsent, toClient>>
               ELSE IF dst \notin connected_sockets
               THEN AfterBroadcast(c) /\ UNCHANGED toClient
               ELSE IF SendRaises(dst)
               THEN /\ bi' = [bi EXCEPT ![c] = i + 1]
                    /\ UNCHANGED <<hpc, reply, bmsg, bn, bstart, bsent, toClient>>
               ELSE /\ bi' = [bi EXCEPT ![c] = i + 1]
                    /\ bsent' = [bsent EXCEPT ![c][dst] = @ + 1]
                    /\ toClient' = Delivered(toClient, dst, BroadcastFrame(bmsg[c], c))
                    /\ UNCHANGED <<hpc, reply, bmsg, bn, bstart>>
    /\ UNCHANGED <<serverVars, content, adm, kicked, toServer, clientVars, nsent, nban, nkill, nnames,
                   messengerVars, botVars>>

\* Line 162, then the while condition again.  An OSError from send is not a
\* DisconnectedError: it is logged by the bare except and the loop goes on.
HandlerSend(c) ==
    /\ hpc[c] = "send"
    /\ toClient' = IF SendRaises(c) THEN toClient ELSE Delivered(toClient, c, reply[c])
    /\ hpc' = [hpc EXCEPT ![c] = IF stop_server THEN "cl1" ELSE "recv"]
    /\ content' = [content EXCEPT ![c] = NoFrame]
    /\ reply' = [reply EXCEPT ![c] = NoFrame]
    /\ UNCHANGED <<serverVars, bmsg, bi, bn, bstart, bsent,
                   adm, kicked, toServer, clientVars, nsent, nban, nkill, nnames,
                   messengerVars, botVars>>

\* A cleanup that leaves the socket in connected_sockets.
HandlerCleanupKeepsSocket(c) ==
    /\ hpc[c] = "cl1"
    /\ IF IsRegistered(c)
       THEN BeginBroadcast(c, SystemNotice("left", reverse_connected_clients[c],
                                           Len(connected_clients) - 1),
                           connected_clients, reverse_connected_clients, "bleft")
       ELSE /\ hpc' = [hpc EXCEPT ![c] = "done"]
            /\ UNCHANGED <<bmsg, bi, bn, bstart, bsent>>
    /\ content' = [content EXCEPT ![c] = NoFrame]
    /\ UNCHANGED <<connected_clients, reverse_connected_clients, blacklisted_users,
                   blacklisted_addrs, connected_sockets, stop_server, lsock, runner,
                   ssock, reply,
                   adm, kicked, toServer, toClient, clientVars, nsent, nban, nkill, nnames,
                   messengerVars, botVars>>

\* Lines 169-173.
HandlerCleanup(c) ==
    /\ hpc[c] = "cl1"
    /\ connected_sockets' = connected_sockets \ {c}
    /\ IF IsRegistered(c)
       THEN BeginBroadcast(c, SystemNotice("left", reverse_connected_clients[c],
                                           Len(connected_clients) - 1),
                           connected_clients, reverse_connected_clients, "bleft")
       ELSE /\ hpc' = [hpc EXCEPT ![c] = "done"]
            /\ UNCHANGED <<bmsg, bi, bn, bstart, bsent>>
    /\ content' = [content EXCEPT ![c] = NoFrame]
    /\ UNCHANGED <<connected_clients, reverse_connected_clients, blacklisted_users,
                   blacklisted_addrs, stop_server, lsock, runner, ssock, reply,
                   adm, kicked, toServer, toClient, clientVars, nsent, nban, nkill, nnames,
                   messengerVars, botVars>>

\* A deregistration that also lifts the ban on the name that leaves.
HandlerDeregisterUnbans(c) ==
    /\ hpc[c] = "cl2"
    /\ LET username == reverse_connected_clients[c] IN
          /\ reverse_connected_clients' = MapPop(reverse_connected_clients, c)
          /\ connected_clients' = DictPop(connected_clients, username)
          /\ blacklisted_users' = SelectSeq(blacklisted_users, LAMBDA u : u # username)
    /\ hpc' = [hpc EXCEPT ![c] = "done"]
    /\ UNCHANGED <<blacklisted_addrs, connected_sockets, stop_server,
                   lsock, runner, ssock, content, reply, bmsg, bi, bn, bstart, bsent,
                   adm, kicked, toServer, toClient, clientVars, nsent, nban, nkill, nnames,
                   messengerVars, botVars>>
\* Lines 174-175 (a KeyError of the second pop ends the thread all the same).
HandlerDeregister(c) ==
    /\ hpc[c] = "cl2"
    /\ LET username == reverse_connected_clients[c] IN
          /\ reverse_connected_clients' = MapPop(reverse_connected_clients, c)
          /\ connected_clients' = DictPop(connected_clients, username)
    /\ hpc' = [hpc EXCEPT ![c] = "done"]
    /\ UNCHANGED <<blacklisted_users, blacklisted_addrs, connected_sockets, stop_server,
                   lsock, runner, ssock, content, reply, bmsg, bi, bn, bstart, bsent,
                   adm, kicked, toServer, toClient, clientVars, nsent, nban, nkill, nnames,
                   messengerVars, botVars>>

\* ------------------------------------------------------------- accept loop
\* Server.start_server: the runner thread calls listen() (which raises on a
\* closed socket and ends the thread) and tests the while condition.
StartServer ==
    /\ runner = "unstarted"
    /\ IF lsock = "closed"
       THEN runner' = "exited" /\ UNCHANGED lsock
       ELSE /\ runner' = IF stop_server THEN "exited" ELSE "running"
            /\ lsock' = "listening"
    /\ UNCHANGED <<connected_clients, reverse_connected_clients, blacklisted_users,
                   blacklisted_addrs, connected_sockets, stop_server, ssock,
                   handlerVars, adm, kicked, toServer, toClient, clientVars, nsent, nban, nkill, nnames,
                   messengerVars, botVars>>

\* Lines 182-185 and the while condition: accept() returns the oldest queued
\* connection and its handler thread is started.
Accept(c) ==
    /\ runner = "running"
    /\ lsock = "listening"
    /\ ssock[c] = "queued"
    /\ \A b \in Conns : b < c => ssock[b] # "queued"
    /\ ssock' = [ssock EXCEPT ![c] = "open"]
    /\ hpc' = [hpc EXCEPT ![c] = "init"]
    /\ runner' = IF stop_server THEN "exited" ELSE "running"
    /\ UNCHANGED <<connected_clients, reverse_connected_clients, blacklisted_users,
                   blacklisted_addrs, connected_sockets, stop_server, lsock,
                   content, reply, bmsg, bi, bn, bstart, bsent,
                   adm, kicked, toServer, toClient, clientVars, nsent, nban, nkill, nnames,
                   messengerVars, botVars>>

\* Lines 186-187: accept() raises on the closed listening socket.
AcceptFails ==
    /\ runner = "running"
    /\ lsock = "closed"
    /\ runner' = IF stop_server THEN "exited" ELSE "running"
    /\ UNCHANGED <<connected_clients, reverse_connected_clients, blacklisted_users,
                   blacklisted_addrs, connected_sockets, stop_server, lsock, ssock,
                   handlerVars, adm, kicked, toServer, toClient, clientVars, nsent, nban, nkill, nnames,
                   messengerVars, botVars>>

\* ------------------------------------------------------------- Server.ban_user
\* Line 212.  (NetBot.ban_user calls it only while it holds a server.)
BanUser(u) ==
    /\ adm.pc = "idle"
    /\ ~stop_server
    /\ nban < MaxBans
    /\ nban' = nban + 1
    /\ blacklisted_users' = Append(blacklisted_users, u)
    /\ adm' = [pc |-> "ban2", arg |-> u]
    /\ Introduce(u)
    /\ UNCHANGED <<kicked, connected_clients, reverse_connected_clients, blacklisted_addrs,
                   connected_sockets, stop_server, lsock, runner, ssock,
                   handlerVars, toServer, toClient, clientVars, nsent, nkill,
                   messengerVars, botVars>>

\* Lines 213-214.
BanAddr ==
    /\ adm.pc = "ban2"
    /\ IF adm.arg \in Keys(connected_clients)
       THEN /\ blacklisted_addrs' =
                  Append(blacklisted_addrs, Host(DictGet(connected_clients, adm.arg)))
            /\ adm' = [adm EXCEPT !.pc = "ban3"]
       ELSE /\ adm' = AdmIdle
            /\ UNCHANGED blacklisted_addrs
    /\ UNCHANGED <<kicked, connected_clients, reverse_connected_clients, blacklisted_users,
                   connected_sockets, stop_server, lsock, runner, ssock,
                   handlerVars, toServer, toClient, clientVars, nsent, nban, nkill, nnames,
                   messengerVars, botVars>>

\* Line 215: socket.close() of the user's socket; either lookup may raise
\* KeyError when the handler is deregistering at the same time.
BanClose ==
    /\ adm.pc = "ban3"
    /\ adm' = AdmIdle
    /\ IF /\ adm.arg \in Keys(connected_clients)
          /\ DictGet(connected_clients, adm.arg) \in connected_sockets
       THEN /\ ssock' = [ssock EXCEPT ![DictGet(connected_clients, adm.arg)] = "closed"]
            /\ kicked' = kicked \cup {<<DictGet(connected_clients, adm.arg), adm.arg>>}
       ELSE UNCHANGED <<ssock, kicked>>
    /\ UNCHANGED <<connected_clients, reverse_connected_clients, blacklisted_users,
                   blacklisted_addrs, connected_sockets, stop_server, lsock, runner,
                   handlerVars, toServer, toClient, clientVars, nsent, nban, nkill, nnames,
                   messengerVars, botVars>>

\* ------------------------------------------------------------- Server.kill_server
\* Line 195.  kill_server may be called again, and before start_server.
KillFlag ==
    /\ adm.pc = "idle"
    /\ nkill < MaxKills
    /\ nkill' = nkill + 1
    /\ stop_server' = TRUE
    /\ adm' = [pc |-> "kill2", arg |-> ""]
    /\ UNCHANGED <<kicked, connected_clients, reverse_connected_clients, blacklisted_users,
                   blacklisted_addrs, connected_sockets, lsock, runner, ssock,
                   handlerVars, toServer, toClient, clientVars, nsent, nban, nnames,
                   messengerVars, botVars>>

\* kill_server that sets the flag and leaves the listening socket open.
KillListenerLeftOpen ==
    /\ adm.pc = "kill2"
    /\ adm' = [adm EXCEPT !.pc = "kill3"]
    /\ UNCHANGED <<kicked, serverVars, handlerVars, toServer, toClient, clientVars,
                   nsent, nban, nkill, nnames, messengerVars, botVars>>

\* Lines 196-200: the listening socket is shut down (an OSError of shutdown on
\* a socket that is not listening is swallowed by the bare except) and closed;
\* connections still queued on it are reset.
KillListener ==
    /\ adm.pc = "kill2"
    /\ lsock' = "closed"
    /\ ssock' = [c \in Conns |-> IF ssock[c] = "queued" THEN "closed" ELSE ssock[c]]
    /\ adm' = [adm EXCEPT !.pc = "kill3"]
    /\ UNCHANGED <<kicked, connected_clients, reverse_connected_clients, blacklisted_users,
                   blacklisted_addrs, connected_sockets, stop_server, runner,
                   handlerVars, toServer, toClient, clientVars, nsent, nban, nkill, nnames,
                   messengerVars, botVars>>

\* Lines 201-208: every socket in the table at this moment is shut down and
\* closed; the join waits at most 2 s and then kill_server returns.
KillClients ==
    /\ adm.pc = "kill3"
    /\ ssock' = [c \in Conns |-> IF c \in connected_sockets THEN "closed" ELSE ssock[c]]
    /\ adm' = AdmIdle
    /\ UNCHANGED <<kicked, connected_clients, reverse_connected_clients, blacklisted_users,
                   blacklisted_addrs, connected_sockets, stop_server, lsock, runner,
                   handlerVars, toServer, toClient, clientVars, nsent, nban, nkill, nnames,
                   messengerVars, botVars>>

\* No statement of the server closes the socket of a handler that has
\* returned.  The interpreter may finalize the unreferenced socket object and
\* so close it; the language does not say when, or whether, it does.
Finalize(c) ==
    /\ hpc[c] = "done"
    /\ ssock[c] = "open"
    /\ csock[c] = "open"
    /\ ssock' = [ssock EXCEPT ![c] = "closed"]
    /\ UNCHANGED <<connected_clients, reverse_connected_clients, blacklisted_users,
                   blacklisted_addrs, connected_sockets, stop_server, lsock, runner,
                   handlerVars, adm, kicked, toServer, toClient, clientVars,
                   nsent, nban, nkill, nnames, messengerVars, botVars>>

\* ------------------------------------------------------------- Client
\* socket.send of the client: the frame is queued for the server unless the
\* server's end is already closed.
ToServer(q, c, f) ==
    IF ssock[c] = "closed" THEN q ELSE [q EXCEPT ![c] = Append(@, f)]
\* Messenger.recv of the client sees EOF once the server's end is closed and
\* every frame sent before was read.
ClientEOF(c) == toClient[c] = <<>> /\ ssock[c] = "closed"

\* Client.connect, line 242, and the first handshake step, line 249, which
\* NetBot.connect_client calls as soon as connect returns.  Connections are
\* numbered in the order made.
Connect(c) ==
    /\ phase[c] = "idle"
    /\ \A b \in Conns : b < c => phase[b] # "idle"
    /\ lsock = "listening"
    /\ phase' = [phase EXCEPT ![c] = "wait1"]
    /\ csock' = [csock EXCEPT ![c] = "open"]
    /\ ssock' = [ssock EXCEPT ![c] = "queued"]
    /\ toServer' = [toServer EXCEPT ![c] = Append(@, AuthReq)]
    /\ UNCHANGED <<connected_clients, reverse_connected_clients, blacklisted_users,
                   blacklisted_addrs, connected_sockets, stop_server, lsock, runner,
                   handlerVars, adm, kicked, toClient,
                   lst, authenticated, known_as, stop_client, ndisc, apperr, heard, nsent, nban, nkill, nnames,
                   messengerVars>>

\* initial_response_handler, lines 250-254.  A reply of None has no
\* ['message']: the TypeError is not caught ("raised").
Step1Recv(c) ==
    /\ phase[c] = "wait1"
    /\ IF ClientEOF(c)
       THEN phase' = [phase EXCEPT ![c] = "failed"] /\ UNCHANGED toClient
       ELSE /\ toClient[c] # <<>>
            /\ toClient' = [toClient EXCEPT ![c] = Tail(@)]
            /\ phase' = [phase EXCEPT ![c] =
                  IF Head(toClient[c]).event = "none" THEN "raised" ELSE "step2"]
    /\ UNCHANGED <<serverVars, handlerVars, adm, kicked, toServer,
                   csock, lst, authenticated, known_as, stop_client, ndisc, apperr, heard, nsent, nban, nkill, nnames,
                   messengerVars>>

\* response_handler, line 260, with the name the user typed.  On a socket the
\* client has closed, socket.send raises OSError; Messenger.send lets it
\* through and "except DisconnectedError" (line 273) does not match it, so it
\* leaves the step ("raised").
Step2Send(c, n) ==
    /\ phase[c] = "step2"
    /\ IF csock[c] = "closed"
       THEN /\ phase' = [phase EXCEPT ![c] = "raised"]
            /\ UNCHANGED <<toServer, nnames>>
       ELSE /\ toServer' = ToServer(toServer, c, AuthName(n))
            /\ phase' = [phase EXCEPT ![c] = "wait2"]
            /\ Introduce(n)
    /\ UNCHANGED <<serverVars, handlerVars, adm, kicked, toClient,
                   csock, lst, authenticated, known_as, stop_client, ndisc, apperr, heard, nsent, nban, nkill,
                   messengerVars>>

\* A client that takes auth_reject as final but leaves its socket open.
RejectedClientKeepsSocket(c) ==
    /\ ndisc' = [ndisc EXCEPT ![c] = @ + 1]
    /\ phase' = [phase EXCEPT ![c] = "rejected"]
    /\ UNCHANGED <<csock, lst, authenticated, known_as>>
\* Lines 264-267: close the socket, invoke the disconnect callback, return.
RejectedClient(c) ==
    /\ csock' = [csock EXCEPT ![c] = "closed"]
    /\ ndisc' = [ndisc EXCEPT ![c] = @ + 1]
    /\ phase' = [phase EXCEPT ![c] = "rejected"]
    /\ UNCHANGED <<lst, authenticated, known_as>>
\* A client that starts its listener without marking itself authenticated.
AcceptedClientUnmarked(c, r) ==
    /\ known_as' = [known_as EXCEPT ![c] = r.username]
    /\ lst' = [lst EXCEPT ![c] = "run"]
    /\ phase' = [phase EXCEPT ![c] = "authed"]
    /\ UNCHANGED <<authenticated, csock, ndisc>>
\* Lines 268-272: record known_as, set authenticated, invoke the auth
\* callback, start the listener thread, return.
AcceptedClient(c, r) ==
    /\ known_as' = [known_as EXCEPT ![c] = r.username]
    /\ authenticated' = [authenticated EXCEPT ![c] = TRUE]
    /\ lst' = [lst EXCEPT ![c] = "run"]
    /\ phase' = [phase EXCEPT ![c] = "authed"]
    /\ UNCHANGED <<csock, ndisc>>

\* response_handler, lines 261-275.
Step2Recv(c) ==
    /\ phase[c] = "wait2"
    /\ IF ClientEOF(c)
       THEN /\ phase' = [phase EXCEPT ![c] = "failed"]
            /\ UNCHANGED <<toClient, csock, lst, authenticated, known_as, stop_client, ndisc>>
       ELSE /\ toClient[c] # <<>>
            /\ toClient' = [toClient EXCEPT ![c] = Tail(@)]
            /\ LET r == Head(toClient[c]) IN
               IF r.event = "auth"
               THEN /\ phase' = [phase EXCEPT ![c] = "step2"]
                    /\ UNCHANGED <<csock, lst, authenticated, known_as, stop_client, ndisc>>
               ELSE IF r.event = "auth_reject"
               THEN RejectedClient(c)
               ELSE IF r.event = "auth_success"
               THEN AcceptedClient(c, r)
               ELSE \* None has no ['message'], a broadcast no ['username']
                    /\ phase' = [phase EXCEPT ![c] = "raised"]
                    /\ UNCHANGED <<csock, lst, authenticated, known_as, stop_client, ndisc>>
    /\ UNCHANGED <<serverVars, handlerVars, adm, kicked, toServer, stop_client, apperr, heard, nsent, nban, nkill, nnames,
                   messengerVars>>

\* Line 293: what on_broadcast_handler has been given, a relayed message being
\* noted by the handler it came through and its text.
Heard(log, f) ==
    IF f.event = "broadcast" /\ f.kind = "relay" THEN Append(log, <<f.via, f.text>>) ELSE log

\* Client.socket_listener, lines 289-298: frames other than a broadcast are
\* dropped; the loop ends when stop_client is set or when recv raises (EOF, or
\* the client's own socket closed), and the disconnect callback is invoked.
Listener(c) ==
    /\ lst[c] = "run"
    /\ IF stop_client[c] \/ csock[c] = "closed" \/ ClientEOF(c)
       THEN /\ lst' = [lst EXCEPT ![c] = "done"]
            /\ ndisc' = [ndisc EXCEPT ![c] = @ + 1]
            /\ UNCHANGED <<toClient, heard>>
       ELSE /\ toClient[c] # <<>>
            /\ toClient' = [toClient EXCEPT ![c] = Tail(@)]
            /\ heard' = [heard EXCEPT ![c] = Heard(@, Head(toClient[c]))]
            /\ UNCHANGED <<lst, ndisc>>
    /\ UNCHANGED <<serverVars, handlerVars, adm, kicked, toServer,
                   phase, csock, authenticated, known_as, stop_client, apperr, nsent, nban, nkill, nnames,
                   messengerVars>>

\* Client.stop, lines 280-282, on a client whose socket is open: the flag is
\* set, the socket shut down and closed, what the server sent is discarded.
ClientStop(c) ==
    /\ phase[c] \in {"step2", "authed", "failed"}
    /\ csock[c] = "open"
    /\ stop_client' = [stop_client EXCEPT ![c] = TRUE]
    /\ csock' = [csock EXCEPT ![c] = "closed"]
    /\ toClient' = [toClient EXCEPT ![c] = <<>>]
    /\ UNCHANGED <<serverVars, handlerVars, adm, kicked, toServer,
                   phase, lst, authenticated, known_as, ndisc, apperr, heard, nsent, nban, nkill, nnames,
                   messengerVars>>

\* Client.stop on a client whose socket object is closed (by an earlier stop,
\* or by the handshake after auth_reject): line 280 sets the flag, shutdown at
\* line 281 raises OSError, which stop does not catch.
ClientStopClosed(c) ==
    /\ csock[c] = "closed"
    /\ "stop" \notin apperr[c]
    /\ stop_client' = [stop_client EXCEPT ![c] = TRUE]
    /\ apperr' = [apperr EXCEPT ![c] = @ \cup {"stop"}]
    /\ UNCHANGED <<serverVars, handlerVars, adm, kicked, toServer, toClient,
                   phase, csock, lst, authenticated, known_as, ndisc, heard,
                   nsent, nban, nkill, nnames, messengerVars>>

\* Client.broadcast / Client.send called by the application on a connected
\* client between handshake steps or after the handshake, once what it sent
\* before was read by the server.
CanSend(c) ==
    /\ phase[c] \in {"step2", "authed"}
    /\ csock[c] = "open"
    /\ toServer[c] = <<>>

\* Client.broadcast, lines 300-302.
ClientBroadcast(c, m) ==
    /\ CanSend(c)
    /\ nsent' = nsent + 1
    /\ toServer' = ToServer(toServer, c, BroadcastReq(Typed(m, nsent + 1)))
    /\ UNCHANGED <<serverVars, handlerVars, adm, kicked, toClient, clientVars, nban, nkill, nnames,
                   messengerVars>>

\* Client.send that does what its except clause is written for.
SendFailureHandled == [raises |-> FALSE, callback |-> TRUE]
\* Lines 306-309 when socket.send fails: Messenger.send lets the OSError
\* through as it is, "except DisconnectedError" does not match it, so it
\* reaches the caller and on_disconnect_handler is not invoked.
SendFailure == [raises |-> TRUE, callback |-> FALSE]
\* Client.broadcast on a client whose socket object is closed.
ClientBroadcastClosed(c, m) ==
    /\ phase[c] \in {"authed", "rejected"}
    /\ csock[c] = "closed"
    /\ "send" \notin apperr[c]
    /\ nsent' = nsent + 1
    /\ apperr' = [apperr EXCEPT ![c] = IF SendFailure.raises THEN @ \cup {"send"} ELSE @]
    /\ ndisc' = [ndisc EXCEPT ![c] = IF SendFailure.callback THEN @ + 1 ELSE @]
    /\ UNCHANGED <<serverVars, handlerVars, adm, kicked, toServer, toClient,
                   phase, csock, lst, authenticated, known_as, stop_client, heard,
                   nban, nkill, nnames, messengerVars>>

\* Client.send, lines 304-307, with an auth event carrying a name.
ClientSendAuth(c, n) ==
    /\ CanSend(c)
    /\ nsent' = nsent + 1
    /\ toServer' = ToServer(toServer, c, AuthName(n))
    /\ Introduce(n)
    /\ UNCHANGED <<serverVars, handlerVars, adm, kicked, toClient, clientVars, nban, nkill,
                   messengerVars>>

\* Client.send, lines 304-307, with an event the protocol does not define.
ClientSendOther(c) ==
    /\ CanSend(c)
    /\ nsent' = nsent + 1
    /\ toServer' = ToServer(toServer, c, OtherReq)
    /\ UNCHANGED <<serverVars, handlerVars, adm, kicked, toClient, clientVars, nban, nkill, nnames,
                   messengerVars>>

\* ------------------------------------------------------------- Messenger
\* Bytes are numbers 0..255.  An event is told apart by its content, a string
\* of code points; pickle.dumps is modelled by a protocol byte, the length of
\* the UTF-8 encoding, the encoding, and the STOP opcode ".".
HEADER_SIZE == 32
MaxContent == 2
Chars == {97, 233}
Contents == UNION {[1..n -> Chars] : n \in 0..MaxContent}
SPACE == 32
PROTO == 128
STOP == 46

RECURSIVE Utf8(_)
Utf8(e) ==
    IF e = <<>> THEN <<>>
    ELSE (IF Head(e) < 128 THEN <<Head(e)>>
          ELSE <<192 + (Head(e) \div 64), 128 + (Head(e) % 64)>>) \o Utf8(Tail(e))
\* The code points of a UTF-8 byte string, or <<-1>> when it is not one.
RECURSIVE Utf8Decode(_)
Utf8Decode(b) ==
    IF b = <<>> THEN <<>>
    ELSE IF Head(b) < 128
        THEN LET r == Utf8Decode(Tail(b)) IN IF r = <<-1>> THEN r ELSE <<Head(b)>> \o r
    ELSE IF Head(b) >= 192 /\ Head(b) < 224 /\ Len(b) >= 2 /\ b[2] >= 128 /\ b[2] < 192
        THEN LET r == Utf8Decode(Tail(Tail(b))) IN
             IF r = <<-1>> THEN r ELSE <<(Head(b) - 192) * 64 + (b[2] - 128)>> \o r
    ELSE <<-1>>

\* pickle.dumps (line 42).
Dumps(e) == <<PROTO, Len(Utf8(e))>> \o Utf8(e) \o <<STOP>>
\* pickle.loads (line 61): the object up to the STOP opcode, bytes after it
\* are ignored; data that ends before STOP, or that is no pickle, raises.
Loads(b) ==
    IF /\ Len(b) >= 3
       /\ b[1] = PROTO
       /\ Len(b) >= b[2] + 3
       /\ b[b[2] + 3] = STOP
       /\ Utf8Decode(SubSeq(b, 3, b[2] + 2)) # <<-1>>
    THEN [kind |-> "ok", value |-> Utf8Decode(SubSeq(b, 3, b[2] + 2))]
    ELSE [kind |-> "UnpicklingError"]

\* "{}".format(n): the decimal digits of n.
RECURSIVE Digits(_)
Digits(n) == IF n < 10 THEN <<48 + n>> ELSE Digits(n \div 10) \o <<48 + (n % 10)>>
\* ljust(HEADER_SIZE, " ").
LJust(s) == s \o [i \in 1..(HEADER_SIZE - Len(s)) |-> SPACE]
\* Lines 41-47.
Pack(e) == LJust(Digits(Len(Dumps(e)))) \o Dumps(e)

\* str.strip().
RECURSIVE Strip(_)
Strip(s) ==
    IF s = <<>> THEN s
    ELSE IF Head(s) = SPACE THEN Strip(Tail(s))
    ELSE IF s[Len(s)] = SPACE THEN Strip(SubSeq(s, 1, Len(s) - 1))
    ELSE s
RECURSIVE Value(_)
Value(d) == IF d = <<>> THEN 0 ELSE 10 * Value(SubSeq(d, 1, Len(d) - 1)) + (d[Len(d)] - 48)
\* Line 57: int(header_data.decode().strip()), or -1 for the ValueError of a
\* header that is empty or is not a number.
ParseHeader(h) ==
    LET d == Strip(h) IN
    IF d # <<>> /\ \A i \in DOMAIN d : d[i] >= 48 /\ d[i] <= 57 THEN Value(d) ELSE -1

\* socket.recv(n) returns between 1 and n of the bytes in flight, as many as
\* have arrived; no byte when the peer has closed and nothing is left.
Reads(n) == IF stream = <<>> \/ n = 0 THEN {0} ELSE 1..(IF n < Len(stream) THEN n ELSE Len(stream))
CanRead(n) == stream # <<>> \/ peer_closed \/ n = 0

\* Lines 56-57 and 63-64.
RecvHeader ==
    /\ rpc = "header"
    /\ CanRead(HEADER_SIZE)
    /\ \E k \in Reads(HEADER_SIZE) :
          LET header_data == SubSeq(stream, 1, k) IN
          /\ stream' = SubSeq(stream, k + 1, Len(stream))
          /\ IF ParseHeader(header_data) = -1
             THEN /\ received' = [kind |-> "DisconnectedError"]
                  /\ rpc' = "done"
                  /\ UNCHANGED data_length
             ELSE /\ data_length' = ParseHeader(header_data)
                  /\ rpc' = "payload"
                  /\ UNCHANGED received
    /\ UNCHANGED <<chatVars, botVars, sent_event, framing, peer_closed>>

\* Lines 58-61: an error of pickle.loads is none of those caught at line 63.
RecvPayload ==
    /\ rpc = "payload"
    /\ CanRead(data_length)
    /\ \E k \in Reads(data_length) :
          /\ stream' = SubSeq(stream, k + 1, Len(stream))
          /\ received' = Loads(SubSeq(stream, 1, k))
    /\ rpc' = "done"
    /\ UNCHANGED <<chatVars, botVars, sent_event, framing, peer_closed, data_length>>

\* One call of Messenger.recv on what a peer wrote: a packed event; a packed
\* event of which the peer, closing, delivered the header and part of the
\* payload; a payload behind a header that is no number; or nothing, the
\* peer having closed.
BadHeader == LJust(<<120, 120>>)
InitMessenger ==
    /\ InitChat
    /\ sent_event \in Contents
    /\ framing \in {"packed", "cut", "garbled", "closed"}
    /\ peer_closed \in BOOLEAN
    /\ framing \in {"cut", "closed"} => peer_closed
    /\ stream \in
          CASE framing = "packed" -> {Pack(sent_event)}
            [] framing = "cut" ->
                 {SubSeq(Pack(sent_event), 1, k) :
                     k \in HEADER_SIZE..(Len(Pack(sent_event)) - 1)}
            [] framing = "garbled" -> {BadHeader \o Dumps(sent_event)}
            [] framing = "closed" -> {<<>>}
    /\ rpc = "header"
    /\ data_length = 0
    /\ received = [kind |-> "none"]
NextMessenger == RecvHeader \/ RecvPayload
SpecMessenger == InitMessenger /\ [][NextMessenger]_vars

\* ------------------------------------------------------------- specification
\* A call of the Client API that no NetBot makes: the slot and the command
\* flow of the NetBot are not involved.
Direct(A) == A /\ UNCHANGED botVars

\* The server's threads.
ServerSteps ==
    \/ StartServer
    \/ \E c \in Conns : Accept(c)
    \/ \E c \in Conns : HandlerEnter(c)
    \/ \E c \in Conns : HandlerRecv(c)
    \/ \E c \in Conns : HandlerRegister(c)
    \/ \E c \in Conns : BroadcastStep(c)
    \/ \E c \in Conns : HandlerSend(c)
    \/ \E c \in Conns : HandlerCleanup(c)
    \/ \E c \in Conns : HandlerDeregister(c)

\* Up to k clients connecting and going through the handshake.
ClientSteps(k) ==
    \/ \E c \in 1..k : Direct(Connect(c))
    \/ \E c \in Conns : Direct(Step1Recv(c))
    \/ \E c \in Conns, n \in AuthNames : Direct(Step2Send(c, n))
    \/ \E c \in Conns : Direct(Step2Recv(c))
    \/ \E c \in Conns : Direct(Listener(c))

\* Up to k calls of Client.broadcast / Client.send by the applications.
AppSends(k) ==
    /\ nsent < k
    /\ \/ \E c \in Conns, m \in ClientMessages : Direct(ClientBroadcast(c, m))
       \/ \E c \in Conns, m \in ClientMessages : Direct(ClientBroadcastClosed(c, m))
       \/ \E c \in Conns, n \in AuthNames : Direct(ClientSendAuth(c, n))
       \/ \E c \in Conns : Direct(ClientSendOther(c))

\* Calls of Client.stop: up to k clients are stopped, and stop may be called
\* again on a client whose socket is closed.
AppStops(k) ==
    \/ /\ Cardinality({c \in Conns : stop_client[c]}) < k
       /\ \E c \in Conns : Direct(ClientStop(c))
    \/ \E c \in Conns : Direct(ClientStopClosed(c))

BanSteps ==
    \/ \E u \in NameChoices : BanUser(u)
    \/ BanAddr
    \/ BanClose

KillSteps ==
    \/ KillFlag
    \/ KillListener
    \/ KillClients
    \/ AcceptFails
    \/ \E c \in Conns : Finalize(c)

\* Reads of the server that return less than they asked for.
ShortReads == \E c \in Conns : HandlerRecvShort(c)

\* The whole program.
Next ==
    \/ ServerSteps
    \/ ClientSteps(NConn)
    \/ AppSends(MaxSends)
    \/ AppStops(NConn)
    \/ BanSteps
    \/ KillSteps
    \/ ShortReads

Spec == Init /\ [][Next]_vars

\* The reads of the clients' threads.
ClientReads == \E c \in Conns : Direct(Step1Recv(c)) \/ Direct(Step2Recv(c)) \/ Direct(Listener(c))

\* Scenarios: the program with part of its environment left out, small enough
\* to explore exhaustively.  Every behaviour of a scenario is one of Spec.
ChatConns == 2
NextChat ==
    ServerSteps \/ ClientSteps(ChatConns) \/ AppSends(MaxSends) \/ AppStops(MaxStops)
SpecChat == Init /\ [][NextChat]_vars
\* The threads of a client that can run do run; nothing obliges an
\* application to call.
ClientThread(c) == Direct(Step1Recv(c)) \/ Direct(Step2Recv(c)) \/ Direct(Listener(c))
FairSpecChat == SpecChat /\ \A c \in Conns : WF_vars(ClientThread(c))

BanConns == 2
NextBan == ServerSteps \/ ClientSteps(BanConns) \/ AppSends(MaxSends) \/ BanSteps
SpecBan == Init /\ [][NextBan]_vars

KillConns == 2
NextKill == ServerSteps \/ ClientSteps(KillConns) \/ KillSteps
SpecKill == Init /\ [][NextKill]_vars
\* Threads that can run do run; nothing obliges the interpreter to finalize
\* an object or a user to type.
KillRuns == KillFlag \/ KillListener \/ KillClients \/ AcceptFails
FairSpecKill ==
    SpecKill /\ WF_vars(ServerSteps) /\ WF_vars(KillRuns) /\ WF_vars(ClientReads)

\* ------------------------------------------------------------- NetBot
\* One NetBot and its user.  The consumer thread of the Bot (bot.py 336-345)
\* handles one user message at a time; it is inside a handler while a
\* handshake step waits for the server's reply.
ConsumerIdle == \A c \in Conns : phase[c] \notin {"wait1", "wait2"}

\* A Bot that keeps the continuation whatever it returned.
CommandFlowKept(c, p) == c
\* What a handshake step that has left the client at p returns, and bot.py
\* 350 / 352 assign to the command flow: response_handler (network.py 254,
\* 275) or None (253, 267, 272, 274).
CommandFlow(c, p) == IF p = "step2" THEN c ELSE 0

\* NetBot.connect_client, lines 88-94, on "/connect" reaching the router
\* (bot.py 352) while the slot is empty: the Client is made and put in the
\* slot, connects and sends the first handshake event.
ConnectClient(c) ==
    /\ ConsumerIdle
    /\ flow = 0
    /\ network_client = 0
    /\ Connect(c)
    /\ network_client' = c
    /\ said' = "connecting"
    /\ UNCHANGED flow

\* Lines 90-98 when nothing listens at the address: socket.connect raises,
\* the bare except empties the slot again.
ConnectFails ==
    /\ ConsumerIdle
    /\ flow = 0
    /\ network_client = 0
    /\ lsock # "listening"
    /\ said' = "wrong"
    /\ UNCHANGED <<chatVars, messengerVars, network_client, flow>>

\* Lines 88-89: the slot is taken.
ConnectRefused ==
    /\ ConsumerIdle
    /\ flow = 0
    /\ network_client # 0
    /\ said' = "already"
    /\ UNCHANGED <<chatVars, messengerVars, network_client, flow>>

\* Line 94 returning: initial_response_handler (network.py 250-254) hands
\* back response_handler, or None after a DisconnectedError; another
\* exception is caught at line 95 and empties the slot.
InitialReply(c) ==
    /\ Step1Recv(c)
    /\ flow' = CommandFlow(c, phase'[c])
    /\ network_client' = IF phase'[c] = "raised" THEN 0 ELSE network_client
    /\ said' = CASE phase'[c] = "step2" -> "prompt"
                 [] phase'[c] = "failed" -> "failed"
                 [] OTHER -> "wrong"

\* bot.py 349-350: a user message while the flow is response_handler is
\* passed to it, and it sends the text as the username (network.py 260).
Reply(c, n) ==
    /\ ConsumerIdle
    /\ flow = c
    /\ Step2Send(c, n)
    /\ UNCHANGED botVars

\* response_handler (network.py 261-275) returning into bot.py 350; an
\* exception leaves the flow as it is (bot.py 344).  on_disconnect_handler is
\* NetBot.on_disconnected_handler (netbot.py 45-48).
Answer(c) ==
    /\ Step2Recv(c)
    /\ flow' = IF phase'[c] = "raised" THEN flow ELSE CommandFlow(c, phase'[c])
    /\ network_client' = IF phase'[c] = "rejected" THEN 0 ELSE network_client
    /\ said' = CASE phase'[c] = "step2" -> "prompt"
                 [] phase'[c] = "authed" -> "welcome"
                 [] phase'[c] = "rejected" -> "disconnected"
                 [] phase'[c] = "failed" -> "failed"
                 [] OTHER -> said

\* NetBot.broadcaster, lines 51-54, the fallback of the router (bot.py
\* 370-373), with a client that is authenticated.
Broadcaster(m) ==
    /\ ConsumerIdle
    /\ flow = 0
    /\ network_client # 0
    /\ authenticated[network_client]
    /\ ClientBroadcast(network_client, m)
    /\ UNCHANGED botVars

\* Line 53 false: the message goes nowhere.
BroadcasterDrops ==
    /\ ConsumerIdle
    /\ flow = 0
    /\ IF network_client = 0 THEN TRUE ELSE ~authenticated[network_client]
    /\ nsent' = nsent + 1
    /\ UNCHANGED <<serverVars, handlerVars, adm, kicked, toServer, toClient, clientVars,
                   nban, nkill, nnames, messengerVars, botVars>>

\* NetBot.disconnect_client, lines 104-107.
DisconnectClient ==
    /\ ConsumerIdle
    /\ flow = 0
    /\ network_client # 0
    /\ ClientStop(network_client)
    /\ network_client' = 0
    /\ said' = "disconnecting"
    /\ UNCHANGED flow

\* Lines 102-103.
DisconnectNothing ==
    /\ ConsumerIdle
    /\ flow = 0
    /\ network_client = 0
    /\ said' = "nothing"
    /\ UNCHANGED <<chatVars, messengerVars, network_client, flow>>

\* Client.socket_listener of a client the NetBot made: the callback of line
\* 298 is NetBot.on_disconnected_handler, which empties the slot.
ListenerStep(c) ==
    /\ Listener(c)
    /\ network_client' = IF lst'[c] = "done" THEN 0 ELSE network_client
    /\ said' = IF lst'[c] = "done" THEN "disconnected" ELSE said
    /\ UNCHANGED flow

\* The NetBot's user makes up to BotConns connections, one after another,
\* and types up to BotSends messages that are no command; the operator of the
\* server bans.
BotConns == 2
BotSends == 1
BotThreads == \E c \in Conns : InitialReply(c) \/ Answer(c) \/ ListenerStep(c)
BotSteps ==
    \/ \E c \in 1..BotConns : ConnectClient(c)
    \/ ConnectFails
    \/ ConnectRefused
    \/ \E c \in Conns, n \in AuthNames : Reply(c, n)
    \/ nsent < BotSends /\ \E m \in ClientMessages : Broadcaster(m)
    \/ nsent < BotSends /\ BroadcasterDrops
    \/ DisconnectClient
    \/ DisconnectNothing
    \/ BotThreads
NextBot == ServerSteps \/ BotSteps \/ BanSteps
SpecBot == Init /\ [][NextBot]_vars
\* Threads that can run do run; nothing obliges the user to type.
FairSpecBot ==
    SpecBot /\ WF_vars(ServerSteps) /\ WF_vars(BanAddr \/ BanClose) /\ WF_vars(BotThreads)

\* A third connection made after the session of another has ended.
JoinConns == 3
Newcomer ==
    /\ \E c \in Conns : stop_client[c] /\ hpc[c] = "done"
    /\ Direct(Connect(JoinConns))
NextJoin == ServerSteps \/ ClientSteps(JoinConns - 1) \/ AppStops(MaxStops) \/ Newcomer
SpecJoin == Init /\ [][NextJoin]_vars

\* Clients that authenticate at the same time, each once and under a name
\* nobody else uses; nobody leaves.
AuthConns == 3
DistinctClients ==
    \/ \E c \in 1..AuthConns : Direct(Connect(c))
    \/ \E c \in Conns : Direct(Step1Recv(c))
    \/ \E c \in Conns, n \in NameChoices \ KnownNames : Direct(Step2Send(c, n))
    \/ \E c \in Conns : Direct(Step2Recv(c))
    \/ \E c \in Conns : Direct(Listener(c))
JoinSteps ==
    \/ StartServer
    \/ \E c \in Conns : Accept(c)
    \/ \E c \in Conns : HandlerEnter(c)
    \/ \E c \in Conns : HandlerRecv(c)
    \/ \E c \in Conns : HandlerRegister(c)
    \/ \E c \in Conns : BroadcastStep(c)
    \/ \E c \in Conns : HandlerSend(c)
NextAuth == JoinSteps \/ DistinctClients
SpecAuth == Init /\ [][NextAuth]_vars

\* Clients under distinct names, one of which leaves; the last one connects
\* after the leaver has called stop.
LeaveConns == 3
LeaveStops == 1
OneLeaves ==
    /\ Cardinality({c \in Conns : stop_client[c]}) < LeaveStops
    /\ \E c \in Conns : Direct(ClientStop(c))
Latecomer ==
    /\ \E c \in Conns : stop_client[c]
    /\ Direct(Connect(LeaveConns))
LeaveClients ==
    \/ \E c \in 1..(LeaveConns - 1) : Direct(Connect(c))
    \/ \E c \in Conns : Direct(Step1Recv(c))
    \/ \E c \in Conns, n \in NameChoices \ KnownNames : Direct(Step2Send(c, n))
    \/ \E c \in Conns : Direct(Step2Recv(c))
    \/ \E c \in Conns : Direct(Listener(c))
NextLeave == ServerSteps \/ LeaveClients \/ OneLeaves \/ Latecomer
SpecLeave == Init /\ [][NextLeave]_vars

\* Two clients under distinct names that stay and talk.
OrderConns == 2
OrderSends == 2
Talk ==
    /\ nsent < OrderSends
    /\ \E c \in Conns, m \in ClientMessages : Direct(ClientBroadcast(c, m))
OrderClients ==
    \/ \E c \in 1..OrderConns : Direct(Connect(c))
    \/ \E c \in Conns : Direct(Step1Recv(c))
    \/ \E c \in Conns, n \in NameChoices \ KnownNames : Direct(Step2Send(c, n))
    \/ \E c \in Conns : Direct(Step2Recv(c))
    \/ \E c \in Conns : Direct(Listener(c))
NextOrder == JoinSteps \/ OrderClients \/ Talk
SpecOrder == Init /\ [][NextOrder]_vars

\* Two clients that talk, over a transport that may deliver a frame in parts.
NextShort == ServerSteps \/ OrderClients \/ Talk \/ ShortReads
SpecShort == Init /\ [][NextShort]_vars

\* ------------------------------------------------------------- properties
\* Handler c reads the frame at the head of its queue in this step.
Takes(c) == hpc[c] = "recv" /\ toServer[c] # <<>> /\ toServer'[c] = Tail(toServer[c])
TakesName(c) == Takes(c) /\ Head(toServer[c]).event = "auth" /\ Head(toServer[c]).hasMsg
\* The handler of d is in its loop and both ends of its connection are open.
Live(d) ==
    /\ hpc[d] \in {"recv", "reg", "bjoin", "brelay", "send"}
    /\ ssock[d] = "open"
    /\ csock[d] = "open"
IsRelay(f) == f.event = "broadcast" /\ f.kind = "relay"
\* The first call of kill_server has returned.
Killed == nkill > 1 \/ (nkill = 1 /\ adm.pc = "idle")
\* Both threads of connection c have ended: the handler has returned, and the
\* client has left its handshake on an error or its listener has returned.
AtRest(c) == hpc[c] = "done" /\ (phase[c] \in {"failed", "raised"} \/ lst[c] = "done")

\* C1: whenever no registration or deregistration is midway, the registry
\* maps are inverse to each other: connected_clients[u] = a exactly when
\* reverse_connected_clients[a] = u, and the two have the same size.
C1_RegistryBijection ==
    /\ Len(connected_clients) = Cardinality(DOMAIN reverse_connected_clients)
    /\ \A i \in DOMAIN connected_clients :
          /\ connected_clients[i].addr \in DOMAIN reverse_connected_clients
          /\ reverse_connected_clients[connected_clients[i].addr] = connected_clients[i].name
    /\ \A a \in DOMAIN reverse_connected_clients :
          /\ reverse_connected_clients[a] \in Keys(connected_clients)
          /\ DictGet(connected_clients, reverse_connected_clients[a]) = a

\* C2: an auth event carrying a name that another live registered session
\* holds is answered with the "already used" prompt, registers nothing and
\* leaves the registry as it was.
C2_DuplicateNameReprompted ==
    [][\A c \in Conns :
          (/\ TakesName(c)
           /\ \E d \in Conns \ {c} :
                 /\ Live(d)
                 /\ d \in DOMAIN reverse_connected_clients
                 /\ reverse_connected_clients[d] = Head(toServer[c]).content)
          => /\ hpc'[c] = "send"
             /\ reply'[c] = Prompt("used")
             /\ connected_clients' = connected_clients
             /\ reverse_connected_clients' = reverse_connected_clients]_vars

\* C3: once ban_user has returned, no handler registers a connection under a
\* banned username or from a banned address.
C3_NoRegistrationAfterBan ==
    [][\A c \in Conns :
          (hpc[c] = "reg" /\ hpc'[c] = "bjoin" /\ adm.pc = "idle")
          => /\ content[c].content \notin Range(blacklisted_users)
             /\ Host(c) \notin Range(blacklisted_addrs)]_vars

\* C4 as stated: every auth event carrying a name, sent from a banned
\* username or a banned address, is answered with auth_reject.
C4_BannedAlwaysRejected ==
    [][\A c \in Conns :
          (/\ TakesName(c)
           /\ \/ Head(toServer[c]).content \in Range(blacklisted_users)
              \/ Host(c) \in Range(blacklisted_addrs))
          => hpc'[c] = "send" /\ reply'[c] = AuthReject]_vars

\* C4, amended: an auth event carrying a name that is not in connected_clients,
\* sent from a banned username or a banned address, is answered with
\* auth_reject and registers nothing (the duplicate check of line 114 comes
\* first and prompts again).
C4_BannedRejectedUnlessDuplicate ==
    [][\A c \in Conns :
          (/\ TakesName(c)
           /\ Head(toServer[c]).content \notin Keys(connected_clients)
           /\ \/ Head(toServer[c]).content \in Range(blacklisted_users)
              \/ Host(c) \in Range(blacklisted_addrs))
          => /\ hpc'[c] = "send"
             /\ reply'[c] = AuthReject
             /\ connected_clients' = connected_clients
             /\ reverse_connected_clients' = reverse_connected_clients]_vars
\* A connection from a banned address, under a name that is not banned, is
\* about to be sent auth_reject.
C4_Witness ==
    \E c \in Conns :
        /\ hpc[c] = "send"
        /\ reply[c] = AuthReject
        /\ content[c].event = "auth"
        /\ content[c].content \notin Range(blacklisted_users)
        /\ Host(c) \in Range(blacklisted_addrs)

\* C5: when the relay of a broadcast from c ends, every other session that
\* was registered when it began, and is still registered and live, was sent
\* exactly one frame.
C5_RelayReachesEveryone ==
    [][\A c \in Conns :
          (hpc[c] = "brelay" /\ hpc'[c] = "send")
          => \A d \in bstart[c] :
                (/\ Live(d)
                 /\ d \in connected_sockets
                 /\ d \in DOMAIN reverse_connected_clients)
                => bsent[c][d] = 1]_vars

\* C6: a relayed broadcast is never queued for the connection it came from.
C6_NoEcho ==
    \A c \in Conns : \A i \in DOMAIN toClient[c] :
        IsRelay(toClient[c][i]) => toClient[c][i].via # c
\* A relayed broadcast is queued for another connection while the sender's
\* handler has passed its own entry of the registry.
C6_Witness ==
    \E c \in Conns, d \in Conns :
        /\ c # d
        /\ hpc[d] = "brelay"
        /\ \E i \in DOMAIN toClient[c] : IsRelay(toClient[c][i]) /\ toClient[c][i].via = d
        /\ \E j \in 1..Len(connected_clients) :
              connected_clients[j].addr = d /\ j < bi[d]

\* C7: a relayed broadcast queued for a client carries initiator Network and
\* as sender the username registered for the connection it came from,
\* whatever the client had put there.
C7_RelayStamped ==
    [][\A c \in Conns :
          Len(toClient'[c]) = Len(toClient[c]) + 1
          => LET f == toClient'[c][Len(toClient'[c])] IN
             IsRelay(f)
             => /\ f.ini = "Network"
                /\ f.via \in DOMAIN reverse_connected_clients
                /\ f.from = reverse_connected_clients[f.via]]_vars
\* A relayed broadcast is queued whose sender had stamped it with initiator
\* User and a name that is not its own.
C7_Witness ==
    \E c \in Conns, d \in Conns :
        /\ hpc[d] = "brelay"
        /\ content[d].event = "broadcast"
        /\ content[d].ini = "User"
        /\ content[d].from # reverse_connected_clients[d]
        /\ \E i \in DOMAIN toClient[c] :
              /\ IsRelay(toClient[c][i])
              /\ toClient[c][i].via = d
              /\ toClient[c][i].from = reverse_connected_clients[d]

\* C8: an event other than auth from a connection that is not registered is
\* answered with the "Hey! Who are you?" prompt; the connection stays
\* unregistered and nothing is relayed to anybody.
C8_UnregisteredPrompted ==
    [][\A c \in Conns :
          (/\ Takes(c)
           /\ Head(toServer[c]).event # "auth"
           /\ c \notin DOMAIN reverse_connected_clients)
          => /\ hpc'[c] = "send"
             /\ reply'[c] = Prompt("who")
             /\ connected_clients' = connected_clients
             /\ reverse_connected_clients' = reverse_connected_clients
             /\ toClient' = toClient
             /\ bi'[c] = 0]_vars
\* An unregistered connection sent a broadcast and is about to be sent the
\* prompt while another session is registered.
C8_Witness ==
    \E c \in Conns :
        /\ hpc[c] = "send"
        /\ reply[c] = Prompt("who")
        /\ content[c].event = "broadcast"
        /\ c \notin DOMAIN reverse_connected_clients
        /\ DOMAIN reverse_connected_clients # {}

\* C9: once both threads of a connection whose socket ban_user(u) closed have
\* ended, u is out of the registry and the client has invoked its disconnect
\* callback.
C9_BanEndsSession ==
    \A k \in kicked :
        AtRest(k[1]) => ndisc[k[1]] > 0 /\ k[2] \notin Keys(connected_clients)

C12_KillIdempotent ==
    [][(adm' # adm /\ adm.pc \in {"kill2", "kill3"} /\ nkill = MaxKills)
          => /\ lsock' = lsock
             /\ runner' = runner
             /\ ssock' = ssock
             /\ connected_sockets' = connected_sockets
             /\ connected_clients' = connected_clients
             /\ reverse_connected_clients' = reverse_connected_clients]_vars

\* C13: no call of Client.stop raises to the application, a second call and a
\* call on a client whose socket is already closed included.
C13_StopNeverRaises == \A c \in Conns : "stop" \notin apperr[c]

\* C14: a call of Client.broadcast on a client whose socket is closed invokes
\* the disconnect callback and raises nothing.
C14_BroadcastOnClosedCallsBack ==
    [][\A c \in Conns :
          (/\ csock[c] = "closed"
           /\ nsent' = nsent + 1
           /\ apperr'[c] # apperr[c] \/ ndisc'[c] # ndisc[c])
          => ndisc'[c] = ndisc[c] + 1 /\ apperr'[c] = apperr[c]]_vars

Step2Reads(c) ==
    /\ phase[c] = "wait2"
    /\ toClient[c] # <<>>
    /\ toClient'[c] = Tail(toClient[c])

\* C16: a handshake step that reads auth_reject closes the client's socket,
\* invokes the disconnect callback once and ends the handshake; the client is
\* not authenticated and its listener is not started, then or later.
C16_RejectEndsClient ==
    [][\A c \in Conns :
          /\ (Step2Reads(c) /\ Head(toClient[c]).event = "auth_reject")
             => /\ csock'[c] = "closed"
                /\ ndisc'[c] = ndisc[c] + 1
                /\ phase'[c] = "rejected"
                /\ ~authenticated'[c]
                /\ lst'[c] = "unstarted"
          /\ phase[c] = "rejected"
             => /\ phase'[c] = "rejected"
                /\ ~authenticated'[c]
                /\ lst'[c] = "unstarted"
                /\ ndisc'[c] = ndisc[c]]_vars
\* A client was rejected: socket closed, callback invoked, no listener.
C16_Witness ==
    \E c \in Conns :
        /\ phase[c] = "rejected"
        /\ csock[c] = "closed"
        /\ ndisc[c] = 1
        /\ lst[c] = "unstarted"
        /\ ~authenticated[c]

\* C17: the listener is started only by a handshake step that reads
\* auth_success, which records known_as and sets authenticated; it is started
\* once and never after a re-prompt, a reject or a failure.
C17_ListenerOnlyAfterAuth ==
    [][\A c \in Conns :
          /\ lst'[c] # lst[c]
             => \/ /\ lst[c] = "unstarted"
                   /\ lst'[c] = "run"
                   /\ Step2Reads(c)
                   /\ Head(toClient[c]).event = "auth_success"
                   /\ authenticated'[c]
                   /\ known_as'[c] = Head(toClient[c]).username
                \/ lst[c] = "run" /\ lst'[c] = "done"
          /\ lst[c] = "run" => authenticated[c]]_vars
\* One client runs its listener under the name the server gave it while
\* another has left the handshake, rejected or failed, without one.
C17_Witness ==
    \E c \in Conns, d \in Conns :
        /\ lst[c] = "run"
        /\ authenticated[c]
        /\ known_as[c] \in Keys(connected_clients)
        /\ phase[d] \in {"rejected", "failed"}
        /\ lst[d] = "unstarted"

C19_BroadcastBestEffort ==
    [][\A c \in Conns :
          (/\ hpc[c] \in {"bjoin", "brelay", "bleft"}
           /\ Len(connected_clients) = bn[c]
           /\ bi[c] <= Len(connected_clients)
           /\ \E j \in (bi[c] + 1)..Len(connected_clients) :
                 /\ connected_clients[j].addr # c
                 /\ connected_clients[j].addr \in connected_sockets
                 /\ ssock[connected_clients[j].addr] = "open"
           /\ bi'[c] # bi[c])
          => hpc'[c] = hpc[c] /\ bi'[c] = bi[c] + 1]_vars

\* C20: once the handler of a connection has exited, the connection is in
\* neither registry map and not in the socket table, so that no name is held
\* by it any more.
C20_ClosedSessionRemoved ==
    \A c \in Conns :
        hpc[c] = "done"
        => /\ c \notin connected_sockets
           /\ c \notin DOMAIN reverse_connected_clients
           /\ c \notin Values(connected_clients)

IsPrefix(s, t) == Len(s) <= Len(t) /\ SubSeq(t, 1, Len(s)) = s

\* C21: no step removes or changes an entry of the banned-username list or of
\* the banned-address list: each list after a step begins with the list
\* before it.
C21_BansOnlyGrow ==
    [][/\ IsPrefix(blacklisted_users, blacklisted_users')
       /\ IsPrefix(blacklisted_addrs, blacklisted_addrs')]_vars
\* A user was banned by name and address, the session was closed and has been
\* deregistered, and a later connection was answered.
C21_Witness ==
    /\ blacklisted_users # <<>>
    /\ blacklisted_addrs # <<>>
    /\ \E k \in kicked :
          /\ hpc[k[1]] = "done"
          /\ k[2] \in Range(blacklisted_users)
          /\ \E d \in Conns : d # k[1] /\ phase[d] \in {"authed", "rejected"}

\* C22: the handler step that sends auth_reject closes the server's socket of
\* that connection and leaves the loop, so that the handler does not go back
\* to reading from it.
C22_RejectClosesConnection ==
    [][\A c \in Conns :
          (hpc[c] = "send" /\ reply[c].event = "auth_reject" /\ hpc'[c] # "send")
          => ssock'[c] = "closed" /\ hpc'[c] = "cl1"]_vars

C24_RoundTrip ==
    (rpc = "done" /\ framing = "packed")
    => received = [kind |-> "ok", value |-> sent_event]

\* C25: Messenger.recv of a header that is no number, or of a payload the
\* peer cut short by closing, fails with an error other than the one it
\* raises for a closed connection.
C25_FrameErrorDistinct ==
    (rpc = "done" /\ framing \in {"garbled", "cut"})
    => received.kind \notin {"ok", "DisconnectedError"}

\* C26: a handler leaves its loop only when its connection is closed at
\* either end or the server is stopping; whatever else goes wrong with a
\* frame, the handler is back at reading.
C26_OnlyCloseEndsHandler ==
    [][\A c \in Conns :
          (hpc[c] \in {"recv", "send"} /\ hpc'[c] = "cl1")
          => (ssock[c] = "closed" \/ csock[c] = "closed" \/ stop_server)]_vars

\* C27: a handshake step that meets a closed connection, when it sends on a
\* socket that is closed or when it reads and the server has closed, ends the
\* handshake with the failure message and raises nothing.
C27_HandshakeFailsQuietly ==
    [][\A c \in Conns :
          (/\ phase'[c] # phase[c]
           /\ \/ phase[c] = "step2" /\ csock[c] = "closed"
              \/ phase[c] \in {"wait1", "wait2"} /\ ClientEOF(c))
          => phase'[c] = "failed"]_vars

\* C28: a broadcast is not ended by another session registering or
\* deregistering meanwhile: while a session that was registered when the
\* broadcast began, still is, and has its socket open has not been sent the
\* message, the loop goes on.
C28_BroadcastSurvivesMutation ==
    [][\A c \in Conns :
          (/\ hpc[c] \in {"bjoin", "brelay", "bleft"}
           /\ Len(connected_clients) # bn[c]
           /\ bi'[c] # bi[c]
           /\ \E d \in bstart[c] :
                 /\ d \in DOMAIN reverse_connected_clients
                 /\ d \in connected_sockets
                 /\ Live(d)
                 /\ bsent[c][d] = 0)
          => hpc'[c] = hpc[c]]_vars

\* C29: every address the registry holds has a socket in connected_sockets.
C29_RegisteredHasSocket ==
    /\ Values(connected_clients) \subseteq connected_sockets
    /\ DOMAIN reverse_connected_clients \subseteq connected_sockets

\* C30: a handshake step never reads a broadcast frame: what the server sends
\* a connection first after registering it is auth_success.
C30_HandshakeReadsOwnReply ==
    [][\A c \in Conns :
          (/\ phase[c] \in {"wait1", "wait2"}
           /\ toClient[c] # <<>>
           /\ toClient'[c] = Tail(toClient[c]))
          => Head(toClient[c]).event # "broadcast"]_vars

\* C31: the duplicate check comes before the ban check: an auth event whose
\* name is a key of connected_clients and is banned as well, by name or by
\* the sender's address, is answered with the "already used" prompt and not
\* with auth_reject, and registers nothing.
C31_DuplicateBeforeBan ==
    [][\A c \in Conns :
          (/\ TakesName(c)
           /\ Head(toServer[c]).content \in Keys(connected_clients)
           /\ \/ Head(toServer[c]).content \in Range(blacklisted_users)
              \/ Host(c) \in Range(blacklisted_addrs))
          => /\ hpc'[c] = "send"
             /\ reply'[c] = Prompt("used")
             /\ reply'[c] # AuthReject
             /\ connected_clients' = connected_clients
             /\ reverse_connected_clients' = reverse_connected_clients]_vars
\* A connection that asked for a name both registered and banned is about to
\* be sent the "already used" prompt.
C31_Witness ==
    \E c \in Conns :
        /\ hpc[c] = "send"
        /\ reply[c] = Prompt("used")
        /\ content[c].event = "auth"
        /\ content[c].content \in Keys(connected_clients)
        /\ content[c].content \in Range(blacklisted_users)
        /\ c \notin DOMAIN reverse_connected_clients

\* The frames that on_sock_recv answers without registering: an auth event
\* with no message, with an empty name, with a name that is a key of
\* connected_clients, or from a banned name or address; and any other event
\* from a connection that is not registered.
Unregistering(c, f) ==
    \/ f.event = "auth" /\ ~f.hasMsg
    \/ /\ f.event = "auth"
       /\ f.hasMsg
       /\ \/ f.content = ""
          \/ f.content \in Keys(connected_clients)
          \/ f.content \in Range(blacklisted_users)
          \/ Host(c) \in Range(blacklisted_addrs)
    \/ f.event \in {"broadcast", "ping"} /\ c \notin DOMAIN reverse_connected_clients

\* C32: handling an auth event with no message, with an empty name, with an
\* already registered name, or one rejected for a ban, or any other event
\* from an unregistered connection, leaves connected_clients,
\* reverse_connected_clients, blacklisted_users and blacklisted_addrs as they
\* were: the handler goes straight to sending its reply, and sending the
\* reply writes none of the four.
C32_RepliesLeaveRegistry ==
    [][\A c \in Conns :
          /\ (Takes(c) /\ Unregistering(c, Head(toServer[c])))
             => /\ hpc'[c] = "send"
                /\ UNCHANGED <<connected_clients, reverse_connected_clients,
                               blacklisted_users, blacklisted_addrs>>
          /\ (hpc[c] = "send" /\ hpc'[c] # "send")
             => UNCHANGED <<connected_clients, reverse_connected_clients,
                            blacklisted_users, blacklisted_addrs>>]_vars
\* An unregistered connection that sent an empty name is about to be answered
\* while the registry and the ban lists hold entries.
C32_Witness ==
    \E c \in Conns :
        /\ hpc[c] = "send"
        /\ content[c].event = "auth"
        /\ content[c].hasMsg
        /\ content[c].content = ""
        /\ c \notin DOMAIN reverse_connected_clients
        /\ connected_clients # <<>>
        /\ blacklisted_users # <<>>

\* C33: when the "joined" broadcast of a registration by c ends, every other
\* session that was registered when it began, and is still registered and
\* live, was sent the notice, and c itself was not.
C33_JoinedReachesOthers ==
    [][\A c \in Conns :
          (hpc[c] = "bjoin" /\ hpc'[c] = "send")
          => /\ bsent[c][c] = 0
             /\ \A d \in bstart[c] :
                   (/\ Live(d)
                    /\ d \in connected_sockets
                    /\ d \in DOMAIN reverse_connected_clients)
                   => bsent[c][d] >= 1]_vars

\* C34: the online count carried by the "joined" notice, by the welcome and
\* by the "left" notice is the number of registered sessions at the moment
\* the count is taken: with the joiner for the first two, without the leaver
\* for the third.
C34_OnlineCountIsSessions ==
    [][\A c \in Conns :
          /\ (hpc[c] = "reg" /\ hpc'[c] = "bjoin")
             => bmsg'[c].online = Cardinality(DOMAIN reverse_connected_clients')
          /\ (hpc[c] = "bjoin" /\ hpc'[c] = "send")
             => reply'[c].online = Cardinality(DOMAIN reverse_connected_clients)
          /\ (hpc[c] = "cl1" /\ hpc'[c] = "bleft")
             => bmsg'[c].online = Cardinality(DOMAIN reverse_connected_clients) - 1]_vars

\* C35: a connection moves forward only.  Once registered it stays registered
\* under the same username until its handler has ended, and a connection
\* whose handler has ended is never registered again.
C35_ForwardOnly ==
    [][\A c \in Conns :
          /\ (c \in DOMAIN reverse_connected_clients /\ hpc'[c] # "done")
             => /\ c \in DOMAIN reverse_connected_clients'
                /\ reverse_connected_clients'[c] = reverse_connected_clients[c]
          /\ hpc[c] = "done"
             => /\ hpc'[c] = "done"
                /\ c \notin DOMAIN reverse_connected_clients']_vars

C37_DisconnectedNotAuthenticated ==
    \A c \in Conns :
        (ndisc[c] > 0 /\ (lst[c] = "done" \/ phase[c] = "rejected"))
        => ~authenticated[c]

\* The attempt or the session of client c has ended: the server rejected it,
\* the handshake failed, the server closed the connection of the
\* authenticated client, or the NetBot stopped it.
Ended(c) ==
    \/ phase[c] \in {"rejected", "failed"}
    \/ phase[c] = "authed" /\ ssock[c] = "closed"
    \/ stop_client[c]

\* C38: the NetBot's slot holds one client at most, and once the attempt or
\* the session of a client has ended the slot is eventually cleared of it,
\* so that the next /connect is accepted.
C38_SlotClearedAfterEnd ==
    \A c \in Conns : Ended(c) ~> (network_client # c)

\* The frame that this step puts on the wire of client c, if it puts one.
Sends(c) == Len(toServer'[c]) > Len(toServer[c])
Sent(c) == toServer'[c][Len(toServer'[c])]

=============================================================================
